---- MODULE Spec2Model ----
(***************************************************************************)
(* A model of the distributed two-person game system:                      *)
(*   - the Game Rules Service (backend/game-rules-service/main.py): the    *)
(*     in-memory `games` registry, the websocket connection handler and    *)
(*     the move handler, one coroutine per connection on one event loop;   *)
(*     a coroutine runs without interruption from one `await` to the next; *)
(*   - the Room Service (backend/room-service/main.py) and the User        *)
(*     Service (backend/user-service/main.py) it consults.                 *)
(* Python's None is the string "None"; an empty cell is ""; the list       *)
(* board is a 9-tuple, Python's board[i] being board[i+1].                 *)
(***************************************************************************)
EXTENDS Integers, Sequences, FiniteSets, TLC

VARIABLES
    users,      \* User Service: the ids of the registered users
    rooms,      \* Room Service: room id -> [players, status]
    games,      \* Game Rules Service: room id -> game state (the dict `games`)
    handlers,   \* the <<room, player>> of the connections in their message loop
    out,        \* the frames (and closes) the last step put on websockets
    lastMover,  \* history: per room, who made the last accepted move of the round
    last,       \* history: the operation of the last step, its room and its user
    tasks,      \* <<room, user>> -> where an operation that has begun and not
                \* ended stands: a connection's coroutine that is not awaiting
                \* receive_text, or a request thread of the Room Service
    board_in,   \* Outcome Evaluator harness: the grid given to check_winner
    result_out  \* Outcome Evaluator harness: what check_winner returned for it

vars == <<users, rooms, games, handlers, out, lastMover, last, tasks, board_in, result_out>>

sessionVars == <<users, rooms, games, handlers, out, lastMover, last, tasks>>
evalVars == <<board_in, result_out>>

-----------------------------------------------------------------------------
(* Bounds of the model *)

\* a client that sends a move for an empty cell picks one of the first
\* MoveChoice empty cells of the board
MoveChoice == 1

\* user ids are fresh uuids; the model names them in the order of creation
UserIds == <<"p1", "p2", "p3", "p4">>
Participants == {"p1", "p2", "p3", "p4"}
\* the users of the two-user and of the three-user specification
Players == {"p1", "p2"}
Players3 == {"p1", "p2", "p3"}
RoomIds == {"r1", "r2"}
Room1 == {"r1"}

NoneVal == "None"
EmptyCell == ""
Cells == 0..8
Marks == {"X", "O"}

EmptyFn == [x \in {} |-> NoneVal]

Op(op, room, user) == [op |-> op, room |-> room, user |-> user]

-----------------------------------------------------------------------------
(* Outcome Evaluator *)

\* the lines of a check_winner that forgets the second diagonal
lines_NoAntiDiagonal ==
    << <<0,1,2>>, <<3,4,5>>, <<6,7,8>>,
       <<0,3,6>>, <<1,4,7>>, <<2,5,8>>,
       <<0,4,8>> >>

lines == << <<0,1,2>>, <<3,4,5>>, <<6,7,8>>,
            <<0,3,6>>, <<1,4,7>>, <<2,5,8>>,
            <<0,4,8>>, <<2,4,6>> >>

\* Python truthiness of a cell value
Truthy(v) == v # EmptyCell /\ v # NoneVal

LineHit(board, i) ==
    LET a == lines[i][1] + 1
        b == lines[i][2] + 1
        c == lines[i][3] + 1
    IN  Truthy(board[a]) /\ board[a] = board[b] /\ board[b] = board[c]

check_winner(board) ==
    IF \E i \in 1..Len(lines) : LineHit(board, i)
    THEN LET first == CHOOSE i \in 1..Len(lines) :
                          /\ LineHit(board, i)
                          /\ \A j \in 1..(i-1) : ~LineHit(board, j)
         IN  board[lines[first][1] + 1]
    ELSE IF \A cell \in Cells : board[cell + 1] # EmptyCell
         THEN "draw"
         ELSE NoneVal

-----------------------------------------------------------------------------
(* User Service *)

\* POST /users: a new user is stored under a fresh id
create_user(u) ==
    /\ last' = Op("create_user", "", u)
    /\ u \notin users
    /\ \E i \in 1..Len(UserIds) :
          /\ UserIds[i] = u
          /\ \A j \in 1..(i-1) : UserIds[j] \in users
    /\ users' = users \cup {u}
    /\ out' = {}
    /\ UNCHANGED <<rooms, games, handlers, lastMover, evalVars, tasks>>

\* GET /users/{user_id}: the status code
get_user(u) == IF u \in users THEN 200 ELSE 404

-----------------------------------------------------------------------------
(* Room Service *)

InSeq(x, s) == \E i \in 1..Len(s) : s[i] = x

InAnyRoom(u) == \E r \in DOMAIN rooms : InSeq(u, rooms[r].players)

\* verify_user_exists: passes only on a 200 from the User Service
verify_user_exists(u) == get_user(u) = 200

\* POST /rooms
create_room(r, host) ==
    /\ last' = Op("create_room", r, host)
    /\ verify_user_exists(host)
    /\ ~InAnyRoom(host)
    /\ r \notin DOMAIN rooms
    /\ rooms' = (r :> [players |-> <<host>>, status |-> "waiting"]) @@ rooms
    /\ out' = {}
    /\ UNCHANGED <<users, games, handlers, lastMover, evalVars, tasks>>

RoomAfterJoin(room, u) ==
    LET players == Append(room.players, u)
    IN  [players |-> players,
         status |-> IF Len(players) = 2 THEN "full" ELSE "waiting"]

\* POST /rooms/{room_id}/join/{user_id}
join_room(r, u) ==
    /\ last' = Op("join_room", r, u)
    /\ verify_user_exists(u)
    /\ ~InAnyRoom(u)
    /\ r \in DOMAIN rooms
    /\ ~InSeq(u, rooms[r].players)
    /\ ~(Len(rooms[r].players) >= 2)
    /\ rooms' = [rooms EXCEPT ![r] = RoomAfterJoin(@, u)]
    /\ out' = {}
    /\ UNCHANGED <<users, games, handlers, lastMover, evalVars, tasks>>

\* the room store after POST /rooms/{room_id}/reset (404 leaves it as it is)
RoomsAfterReset(r) ==
    IF r \in DOMAIN rooms
    THEN [rooms EXCEPT ![r] = [players |-> <<>>, status |-> "waiting"]]
    ELSE rooms

reset_room(r) ==
    /\ last' = Op("reset_room", r, "")
    /\ r \in DOMAIN rooms
    /\ rooms' = RoomsAfterReset(r)
    /\ out' = {}
    /\ UNCHANGED <<users, games, handlers, lastMover, evalVars, tasks>>

-----------------------------------------------------------------------------
(* Game Rules Service: admission *)

\* the outcomes of one HTTP round trip to a collaborator: it answers, it
\* answers with a server error, or requests raises RequestException
NetOutcomes == {"ok", "error", "down"}

user_exists(user_id, net) ==
    IF net = "down" THEN FALSE
    ELSE (IF net = "error" THEN 500 ELSE get_user(user_id)) = 200

\* a membership check that fails open: no answer of the Room Service is
\* taken as membership
user_in_room_FailOpen(room_id, user_id, net) ==
    IF net # "ok" THEN TRUE
    ELSE IF room_id \in DOMAIN rooms
         THEN InSeq(user_id, rooms[room_id].players)
         ELSE FALSE

user_in_room(room_id, user_id, net) ==
    IF net = "down" THEN FALSE
    ELSE IF net = "error" THEN FALSE
    ELSE IF DOMAIN rooms = {} THEN FALSE
    ELSE IF room_id \in DOMAIN rooms
         THEN InSeq(user_id, rooms[room_id].players)
         ELSE FALSE

-----------------------------------------------------------------------------
(* Game Rules Service: session state *)

EmptyBoard == [c \in 1..9 |-> EmptyCell]

\* games[room_id] as websocket_endpoint creates it; lock is the asyncio.Lock:
\* its locked flag and the FIFO queue of coroutines waiting in acquire()
NewGame ==
    [board    |-> EmptyBoard,
     players  |-> <<>>,
     mark_map |-> EmptyFn,
     turn     |-> NoneVal,
     sockets  |-> EmptyFn,
     lock     |-> [locked |-> FALSE, waiters |-> <<>>]]

\* handlers holds <<room_id, player_id>> for every connection whose coroutine
\* is in the message loop, awaiting receive_text (line 165)
\* what a step puts on a websocket: a frame, or the close of the socket; a
\* state snapshot carries the board as well
Frame(p, ws, type, message, winner) ==
    [p |-> p, ws |-> ws, type |-> type, message |-> message, winner |-> winner,
     board |-> <<>>]

ErrorFrame(p, ws, message) == Frame(p, ws, "error", message, NoneVal)
InfoFrame(p, ws, message) == Frame(p, ws, "info", message, NoneVal)
Close(p, ws) == Frame(p, ws, "close", "", NoneVal)

\* broadcast_state: the snapshot goes to every socket registered in the game
broadcast_state(game, message, winner) ==
    {[Frame(p, game.sockets[p], "state", message, winner) EXCEPT !.board = game.board] :
        p \in DOMAIN game.sockets}

\* notify_remaining_on_disconnect: an info frame to every socket still registered
notify_remaining_on_disconnect(game, player_id) ==
    {InfoFrame(p, game.sockets[p], "Opponent disconnected") : p \in DOMAIN game.sockets}

\* reset_game_state: the board is cleared and the turn goes to the first player
reset_game_state(game) ==
    [game EXCEPT !.board = EmptyBoard,
                 !.turn = IF Len(game.players) > 0 THEN game.players[1] ELSE NoneVal]

\* the identity of the WebSocket object of a new connection of player_id: it
\* differs from the one registered for player_id, if any
NewWs(room_id, player_id) ==
    IF room_id \in DOMAIN games /\ player_id \in DOMAIN games[room_id].sockets
    THEN 3 - games[room_id].sockets[player_id]
    ELSE 1

\* the WebSocket object of the running connection of player_id: the one it
\* registered at line 138
OwnWs(room_id, player_id) ==
    IF room_id \in DOMAIN games /\ player_id \in DOMAIN games[room_id].sockets
    THEN games[room_id].sockets[player_id]
    ELSE 1

-----------------------------------------------------------------------------
(* Game Rules Service: websocket_endpoint, from accept to the message loop *)

\* lines 114-125
GamesWith(room_id) ==
    IF room_id \notin DOMAIN games THEN (room_id :> NewGame) @@ games ELSE games

\* an endpoint without the check of line 128
AlreadyConnected_Never(game, player_id) == FALSE

\* line 128
AlreadyConnected(game, player_id) == player_id \in DOMAIN game.sockets

\* lines 134-135
AddPlayer(game, player_id) ==
    IF ~InSeq(player_id, game.players)
    THEN [game EXCEPT !.players = Append(@, player_id)]
    ELSE game

\* line 138
SaveSocket(game, player_id, ws) ==
    [game EXCEPT !.sockets = (player_id :> ws) @@ @]

\* a registration that gives X to every player without a mark
AssignMark_AlwaysX(game, player_id) ==
    IF player_id \notin DOMAIN game.mark_map
    THEN [game EXCEPT !.mark_map = (player_id :> "X") @@ @]
    ELSE game

\* lines 141-145
AssignMark(game, player_id) ==
    IF player_id \notin DOMAIN game.mark_map
    THEN IF Cardinality(DOMAIN game.mark_map) = 0
         THEN [game EXCEPT !.mark_map = (player_id :> "X") @@ @]
         ELSE IF Cardinality(DOMAIN game.mark_map) = 1
         THEN [game EXCEPT !.mark_map = (player_id :> "O") @@ @]
         ELSE game
    ELSE game

\* line 149
TwoConnected(game) ==
    Len(game.players) = 2 /\ Cardinality(DOMAIN game.sockets) = 2

SetDefault(m, k, v) == IF k \in DOMAIN m THEN m ELSE (k :> v) @@ m

\* lines 151-155
StartGame(game) ==
    LET p1 == game.players[1]
        p2 == game.players[2]
    IN  [game EXCEPT !.mark_map = SetDefault(SetDefault(@, p1, "X"), p2, "O"),
                     !.turn = p1]

\* lines 134-155
Register(game, player_id, ws) ==
    LET g == AssignMark(SaveSocket(AddPlayer(game, player_id), player_id, ws),
                        player_id)
    IN  IF TwoConnected(g) THEN StartGame(g) ELSE g

\* lines 158-161
RegisterFrames(game, player_id, ws) ==
    IF Len(game.players) = 2 /\ Cardinality(DOMAIN game.sockets) = 2
    THEN broadcast_state(game, "Game started", NoneVal)
    ELSE {InfoFrame(player_id, ws, "Waiting for opponent...")}

\* a connection to /ws/{room_id}/{player_id}, from the answers of the two
\* admission round trips, userNet and roomNet, to the message loop
Connect(room_id, player_id, userNet, roomNet) ==
    LET ws == NewWs(room_id, player_id) IN
    /\ last' = Op("websocket_endpoint", room_id, player_id)
    \* the membership round trip is made only after the identity one passed
    /\ roomNet # "ok" => user_exists(player_id, userNet)
    /\ UNCHANGED <<users, rooms, lastMover, evalVars>>
    /\ IF ~user_exists(player_id, userNet)
       THEN /\ out' = {ErrorFrame(player_id, ws, "User not found in User Service"),
                       Close(player_id, ws)}
            /\ UNCHANGED <<games, handlers>>
       ELSE IF ~user_in_room(room_id, player_id, roomNet)
       THEN /\ out' = {ErrorFrame(player_id, ws, "User not in the specified room"),
                       Close(player_id, ws)}
            /\ UNCHANGED <<games, handlers>>
       ELSE LET games1 == GamesWith(room_id)
                game == games1[room_id]
            IN  IF AlreadyConnected(game, player_id)
                THEN /\ out' = {ErrorFrame(player_id, ws, "Player already connected"),
                                Close(player_id, ws)}
                     /\ games' = games1
                     /\ UNCHANGED handlers
                ELSE \E g \in {Register(game, player_id, ws)} :
                         /\ games' = [games1 EXCEPT ![room_id] = g]
                         /\ out' = RegisterFrames(g, player_id, ws)
                         /\ handlers' = handlers \cup {<<room_id, player_id>>}

\* a connection handled in one step, the admission round trips included
websocket_endpoint(room_id, player_id, userNet, roomNet) ==
    /\ Connect(room_id, player_id, userNet, roomNet)
    /\ UNCHANGED tasks

\* a disconnect that drops every socket of the game
RemoveSocket_All(game, player_id) == [game EXCEPT !.sockets = EmptyFn]

\* WebSocketDisconnect raised by receive_text (lines 180-188)
RemoveSocket(game, player_id) ==
    IF player_id \in DOMAIN game.sockets
    THEN [game EXCEPT !.sockets = [q \in (DOMAIN @) \ {player_id} |-> @[q]]]
    ELSE game

Disconnect(room_id, player_id) ==
    /\ last' = Op("Disconnect", room_id, player_id)
    /\ <<room_id, player_id>> \in handlers
    /\ handlers' = handlers \ {<<room_id, player_id>>}
    /\ IF room_id \in DOMAIN games
       THEN LET g == RemoveSocket(games[room_id], player_id)
            IN  /\ games' = [games EXCEPT ![room_id] = g]
                /\ out' = notify_remaining_on_disconnect(g, player_id)
       ELSE /\ out' = {}
            /\ UNCHANGED games
    /\ UNCHANGED <<users, rooms, lastMover, evalVars, tasks>>

-----------------------------------------------------------------------------
(* Game Rules Service: handle_move *)

\* a handle_move without the check of line 227: an occupied cell is overwritten
MoveVerdict_NoOccupied(game, player_id, index) ==
    IF ~InSeq(player_id, game.players) THEN "You are not a player in this game"
    ELSE IF game.turn # player_id THEN "Not your turn"
    ELSE IF ~index.isint \/ index.val < 0 \/ index.val > 8 THEN "Invalid index"
    ELSE "ok"

\* lines 209-229: the error of a rejected move, or "ok"
MoveVerdict(game, player_id, index) ==
    IF ~InSeq(player_id, game.players) THEN "You are not a player in this game"
    ELSE IF game.turn # player_id THEN "Not your turn"
    ELSE IF ~index.isint \/ index.val < 0 \/ index.val > 8 THEN "Invalid index"
    ELSE IF game.board[index.val + 1] # EmptyCell THEN "Cell already occupied"
    ELSE "ok"

\* a handle_move that writes the first mark whoever moves
PlaceMark_AlwaysX(game, player_id, index) ==
    [game EXCEPT !.board[index.val + 1] = "X"]

\* lines 232-233
PlaceMark(game, player_id, index) ==
    LET mark == IF player_id \in DOMAIN game.mark_map
                THEN game.mark_map[player_id] ELSE NoneVal
    IN  [game EXCEPT !.board[index.val + 1] = mark]

\* a handle_move that reports the winning mark instead of its owner
WinnerId_Mark(game, result) == result

\* lines 239-242: the marks of mark_map are distinct, so at most one pid matches
WinnerId(game, result) ==
    IF \E pid \in DOMAIN game.mark_map : game.mark_map[pid] = result
    THEN CHOOSE pid \in DOMAIN game.mark_map : game.mark_map[pid] = result
    ELSE NoneVal

\* a handle_move that passes the turn to the last of the other players
NextPlayer_Last(game, player_id) ==
    LET other == SelectSeq(game.players, LAMBDA q : q # player_id)
    IN  IF Len(other) > 0 THEN other[Len(other)] ELSE NoneVal

\* lines 263-264
NextPlayer(game, player_id) ==
    LET other == SelectSeq(game.players, LAMBDA q : q # player_id)
    IN  IF Len(other) > 0 THEN other[1] ELSE NoneVal

\* line 265
SwitchTurn(game, player_id) == [game EXCEPT !.turn = NextPlayer(game, player_id)]

\* lines 209-229: a rejected move. With the mover's socket registered the
\* error frame goes to it ("reject"); without it the first two checks return
\* silently ("quiet") and the last two raise KeyError ("raise")
RejectMove(game, player_id, verdict) ==
    IF player_id \in DOMAIN game.sockets
    THEN [game |-> game, pc |-> "reject",
          out |-> {ErrorFrame(player_id, game.sockets[player_id], verdict)}]
    ELSE IF verdict \in {"You are not a player in this game", "Not your turn"}
    THEN [game |-> game, pc |-> "quiet", out |-> {}]
    ELSE [game |-> game, pc |-> "raise", out |-> {}]

\* lines 232-266: an accepted move, up to its broadcast: "term" for a win or
\* a draw (the reset is still to come), "cont" otherwise
AcceptMove(game, player_id, index) ==
    LET g == PlaceMark(game, player_id, index)
        result == check_winner(g.board)
    IN  IF result \in Marks
        THEN [game |-> g, pc |-> "term",
              out |-> broadcast_state(g, "wins", WinnerId(g, result))]
        ELSE IF result = "draw"
        THEN [game |-> g, pc |-> "term",
              out |-> broadcast_state(g, "Draw!", "draw")]
        ELSE LET g2 == SwitchTurn(g, player_id)
             IN  [game |-> g2, pc |-> "cont",
                  out |-> broadcast_state(g2, "moved", NoneVal)]

\* handle_move under the lock, from line 209 to its first await or return
MoveStep(game, player_id, index) ==
    LET verdict == MoveVerdict(game, player_id, index)
    IN  IF verdict # "ok"
        THEN RejectMove(game, player_id, verdict)
        ELSE AcceptMove(game, player_id, index)

\* a handle_move that broadcasts the outcome and leaves the game as it is
MoveEnd_NoReset(game, pc) == game

\* lines 246, 255: after the broadcast of a win or a draw the game is reset
MoveEnd(game, pc) == IF pc = "term" THEN reset_game_state(game) ELSE game

\* lines 249, 257: the room reset is posted after a win or a draw; posted
\* says whether the request reached the Room Service
RoomsAfterMove(room_id, pc, posted) ==
    IF pc = "term" /\ posted THEN RoomsAfterReset(room_id) ELSE rooms

\* the frames and the close of the `except Exception` branch (lines 189-195)
ServerError(room_id, player_id) ==
    {ErrorFrame(player_id, OwnWs(room_id, player_id), "Server error"),
     Close(player_id, OwnWs(room_id, player_id))}

\* An index is [isint, val]: isint is isinstance(index, int) and val the
\* value of an int. JSON true and false are Python bools, which are ints of
\* value 1 and 0 and index a list as such, so the int inputs stand for them.
\* NoIndex is an index that is no int: a string, a float, null, or none at all
NoIndex == [isint |-> FALSE, val |-> 0]

\* the index values a client sends with a move: one of the first MoveChoice
\* empty cells, one of the first MoveChoice occupied cells, the two nearest
\* out-of-range integers, and a value that is no int (NoIndex)
Among(board, c, empty) ==
    /\ (board[c + 1] = EmptyCell) = empty
    /\ Cardinality({d \in Cells : d < c /\ (board[d + 1] = EmptyCell) = empty}) < MoveChoice

MoveInputs(game) ==
    {NoIndex}
    \cup {[isint |-> TRUE, val |-> v] : v \in {-1, 9}}
    \cup {[isint |-> TRUE, val |-> c] :
             c \in {d \in Cells : Among(game.board, d, TRUE) \/ Among(game.board, d, FALSE)}}

AllInputs(room_id) ==
    IF room_id \in DOMAIN games THEN MoveInputs(games[room_id]) ELSE {NoIndex}

\* lines 165-176 and handle_move: a frame {"action": "move", "index": index}
\* arrives and is handled to the end; no await of handle_move suspends
handle_move(room_id, player_id, index, posted) ==
    /\ last' = Op("handle_move", room_id, player_id)
    /\ <<room_id, player_id>> \in handlers
    /\ UNCHANGED <<users, evalVars, tasks>>
    /\ IF room_id \notin DOMAIN games
       THEN /\ out' = {}
            /\ UNCHANGED <<rooms, games, handlers, lastMover>>
       ELSE \E m \in {MoveStep(games[room_id], player_id, index)} :
                /\ ~games[room_id].lock.locked
                /\ posted \/ m.pc = "term"
                /\ games' = [games EXCEPT ![room_id] = MoveEnd(m.game, m.pc)]
                /\ rooms' = RoomsAfterMove(room_id, m.pc, posted)
                /\ out' = IF m.pc = "raise" THEN ServerError(room_id, player_id)
                          ELSE m.out
                /\ handlers' = IF m.pc = "raise"
                               THEN handlers \ {<<room_id, player_id>>}
                               ELSE handlers
                /\ lastMover' = [lastMover EXCEPT ![room_id] =
                                    IF m.pc = "term" THEN NoneVal
                                    ELSE IF m.pc = "cont" THEN player_id
                                    ELSE @]

-----------------------------------------------------------------------------
(* Game Rules Service: the other frames of the message loop *)

\* lines 166-170: json.loads raises JSONDecodeError
RecvInvalidJson(room_id, player_id) ==
    /\ last' = Op("RecvInvalidJson", room_id, player_id)
    /\ <<room_id, player_id>> \in handlers
    /\ out' = {ErrorFrame(player_id, OwnWs(room_id, player_id), "Invalid JSON")}
    /\ UNCHANGED <<users, rooms, games, handlers, lastMover, evalVars, tasks>>

\* lines 172, 189-195: the frame is JSON but no object (a list, a number, a
\* string, null): data.get raises AttributeError, caught by `except
\* Exception`: an error frame, the socket is closed and the coroutine ends;
\* games[room_id]["sockets"] is not touched
RecvNonObject(room_id, player_id) ==
    /\ last' = Op("RecvNonObject", room_id, player_id)
    /\ <<room_id, player_id>> \in handlers
    /\ out' = ServerError(room_id, player_id)
    /\ handlers' = handlers \ {<<room_id, player_id>>}
    /\ UNCHANGED <<users, rooms, games, lastMover, evalVars, tasks>>

\* lines 172-178: an object whose action is missing or is not "move"
RecvUnknownAction(room_id, player_id) ==
    /\ last' = Op("RecvUnknownAction", room_id, player_id)
    /\ <<room_id, player_id>> \in handlers
    /\ out' = {ErrorFrame(player_id, OwnWs(room_id, player_id), "Unknown action")}
    /\ UNCHANGED <<users, rooms, games, handlers, lastMover, evalVars, tasks>>

-----------------------------------------------------------------------------
(* The session specification: one room, its members and their connections *)

InitSession ==
    /\ users = {}
    /\ rooms = EmptyFn
    /\ games = EmptyFn
    /\ handlers = {}
    /\ out = {}
    /\ lastMover = [r \in RoomIds |-> NoneVal]
    /\ last = Op("", "", "")
    /\ tasks = EmptyFn

Init ==
    /\ InitSession
    /\ board_in = EmptyBoard
    /\ result_out = NoneVal

Next ==
    \/ \E u \in Players : create_user(u)
    \/ \E r \in Room1, u \in Players : create_room(r, u)
    \/ \E r \in Room1, u \in Players : join_room(r, u)
    \/ \E r \in Room1 : reset_room(r)
    \/ \E r \in Room1, p \in Players, userNet \in NetOutcomes, roomNet \in NetOutcomes :
          websocket_endpoint(r, p, userNet, roomNet)
    \/ \E r \in Room1, p \in Players : Disconnect(r, p)
    \/ \E r \in Room1, p \in Players : RecvInvalidJson(r, p)
    \/ \E r \in Room1, p \in Players : RecvNonObject(r, p)
    \/ \E r \in Room1, p \in Players : RecvUnknownAction(r, p)
    \/ \E r \in Room1, p \in Players, posted \in BOOLEAN :
          \E index \in AllInputs(r) : handle_move(r, p, index, posted)

Spec == Init /\ [][Next]_vars

-----------------------------------------------------------------------------
(* Three users: the room is reset after a round and a third user joins it. *)
(* The frames of the message loop other than moves, and the failures of   *)
(* the collaborators, are left to Spec.                                    *)

Next3 ==
    \/ \E u \in Players3 : create_user(u)
    \/ \E r \in Room1, u \in Players3 : create_room(r, u)
    \/ \E r \in Room1, u \in Players3 : join_room(r, u)
    \/ \E r \in Room1, p \in Players3 : websocket_endpoint(r, p, "ok", "ok")
    \/ \E r \in Room1, p \in Players3 : Disconnect(r, p)
    \/ \E r \in Room1, p \in Players3, posted \in BOOLEAN :
          \E index \in AllInputs(r) : handle_move(r, p, index, posted)

Spec3 == Init /\ [][Next3]_vars

-----------------------------------------------------------------------------
(* Two connected players and every cell of the board: the rounds of a game *)
(* that has started, with no connection coming or going.                   *)

StartedGame ==
    [board    |-> EmptyBoard,
     players  |-> <<"p1", "p2">>,
     mark_map |-> ("p1" :> "X") @@ ("p2" :> "O"),
     turn     |-> "p1",
     sockets  |-> ("p1" :> 1) @@ ("p2" :> 1),
     lock     |-> [locked |-> FALSE, waiters |-> <<>>]]

InitPlay ==
    /\ users = {"p1", "p2"}
    /\ rooms = ("r1" :> [players |-> <<"p1", "p2">>, status |-> "full"])
    /\ games = ("r1" :> StartedGame)
    /\ handlers = {<<"r1", "p1">>, <<"r1", "p2">>}
    /\ out = {}
    /\ lastMover = [r \in RoomIds |-> NoneVal]
    /\ last = Op("", "", "")
    /\ tasks = EmptyFn
    /\ board_in = EmptyBoard
    /\ result_out = NoneVal

PlayInputs ==
    {NoIndex} \cup {[isint |-> TRUE, val |-> v] : v \in -1..9}

NextPlay ==
    \E r \in Room1, p \in Players, posted \in BOOLEAN :
        \E index \in PlayInputs : handle_move(r, p, index, posted)

SpecPlay == InitPlay /\ [][NextPlay]_vars

-----------------------------------------------------------------------------
(* The Outcome Evaluator on every grid over {empty, X, O} *)

Grids == [1..9 -> {EmptyCell} \cup Marks]

InitEval ==
    /\ InitSession
    /\ board_in \in Grids
    /\ result_out = "unset"

Evaluate ==
    /\ result_out = "unset"
    /\ result_out' = check_winner(board_in)
    /\ UNCHANGED <<board_in, sessionVars>>

SpecEval == InitEval /\ [][Evaluate]_vars

-----------------------------------------------------------------------------
(* The Game Rules Service step by step. One event loop runs the coroutines  *)
(* of all connections: a coroutine runs from one await to the next, and a   *)
(* call of requests (lines 60, 72, 249, 257) holds the event loop until it  *)
(* returns. tasks[<<room_id, player_id>>].pc says where a coroutine stands:  *)
(*   "admission"  accepted, in the round trips of lines 103 and 108         *)
(*   "wait"       in handle_move, awaiting the lock (line 207)              *)
(*   "granted"    woken by the release of the lock, not yet run             *)
(*   "reject"     holds the lock, awaiting the send of an error frame       *)
(*   "cont"       holds the lock, awaiting broadcast_state (line 266)       *)
(*   "term"       holds the lock, awaiting broadcast_state (line 244, 254)  *)
(*   "post"       holds the lock, in requests.post (line 249, 257)          *)

Task(pc, index) == [pc |-> pc, index |-> index]

Without(f, k) == [x \in (DOMAIN f) \ {k} |-> f[x]]

\* the coroutines whose call of requests holds the event loop
Blocking == {c \in DOMAIN tasks : tasks[c].pc \in {"admission", "post"}}

\* the coroutines that hold the lock of the game of room_id
Holders(room_id) ==
    {c \in DOMAIN tasks : c[1] = room_id /\ tasks[c].pc \in {"reject", "cont", "term", "post"}}

\* a lock that every coroutine takes at once
CanAcquire_Always(lock) == TRUE

\* asyncio.Lock.acquire (line 207) takes the lock at once if it is free and
\* no coroutine waits for it
CanAcquire(lock) == ~lock.locked /\ lock.waiters = <<>>

\* a release that wakes no waiter
WakeFirst_Never(ts, room_id, waiters) == ts

\* asyncio.Lock.release (leaving line 207's block) wakes the first waiter
WakeFirst(ts, room_id, waiters) ==
    IF waiters # <<>> /\ ts[<<room_id, waiters[1]>>].pc = "wait"
    THEN [ts EXCEPT ![<<room_id, waiters[1]>>].pc = "granted"]
    ELSE ts

\* lines 209-266 up to the first await, run by a coroutine that has just
\* taken the lock; waiters are the coroutines still queued for it
EnterMove(room_id, player_id, index, waiters) ==
    \E m \in {MoveStep(games[room_id], player_id, index)} :
        /\ lastMover' = [lastMover EXCEPT ![room_id] =
                            IF m.pc = "term" THEN NoneVal
                            ELSE IF m.pc = "cont" THEN player_id
                            ELSE @]
        /\ UNCHANGED <<users, rooms, evalVars>>
        /\ IF m.pc \in {"reject", "cont", "term"}
           THEN /\ games' = [games EXCEPT ![room_id] =
                               [m.game EXCEPT !.lock = [locked |-> TRUE, waiters |-> waiters]]]
                /\ tasks' = (<<room_id, player_id>> :> Task(m.pc, index)) @@ tasks
                /\ out' = m.out
                /\ UNCHANGED handlers
           \* no socket of the mover is registered: the function returns or
           \* raises KeyError before any await, and the lock is released
           ELSE /\ games' = [games EXCEPT ![room_id].lock =
                               [locked |-> FALSE, waiters |-> waiters]]
                /\ tasks' = WakeFirst(Without(tasks, <<room_id, player_id>>), room_id, waiters)
                /\ out' = IF m.pc = "raise" THEN ServerError(room_id, player_id) ELSE {}
                /\ handlers' = IF m.pc = "raise"
                               THEN handlers \ {<<room_id, player_id>>}
                               ELSE handlers

\* lines 165-176, 204-207: a move frame arrives; handle_move takes the lock
\* and runs on, or queues for the lock
MoveFrame(room_id, player_id, index) ==
    /\ last' = Op("MoveFrame", room_id, player_id)
    /\ Blocking = {}
    /\ <<room_id, player_id>> \in handlers
    /\ <<room_id, player_id>> \notin DOMAIN tasks
    /\ room_id \in DOMAIN games
    /\ IF CanAcquire(games[room_id].lock)
       THEN EnterMove(room_id, player_id, index, games[room_id].lock.waiters)
       ELSE /\ games' = [games EXCEPT ![room_id].lock.waiters = Append(@, player_id)]
            /\ tasks' = (<<room_id, player_id>> :> Task("wait", index)) @@ tasks
            /\ out' = {}
            /\ UNCHANGED <<users, rooms, handlers, lastMover, evalVars>>

\* line 207: the woken waiter leaves the queue, takes the lock and runs on
LockGranted(room_id, player_id) ==
    /\ last' = Op("LockGranted", room_id, player_id)
    /\ Blocking = {}
    /\ <<room_id, player_id>> \in DOMAIN tasks
    /\ tasks[<<room_id, player_id>>].pc = "granted"
    /\ EnterMove(room_id, player_id, tasks[<<room_id, player_id>>].index,
                 SelectSeq(games[room_id].lock.waiters, LAMBDA q : q # player_id))

\* the lock is released and its first waiter woken; the coroutine goes back
\* to receive_text
ReleaseLock(room_id, player_id) ==
    /\ games' = [games EXCEPT ![room_id].lock.locked = FALSE]
    /\ tasks' = WakeFirst(Without(tasks, <<room_id, player_id>>), room_id,
                          games[room_id].lock.waiters)

\* lines 213, 220, 224, 228, 266: the send of a rejected move or the
\* broadcast of a continuing one is over; handle_move returns
MoveReturn(room_id, player_id) ==
    /\ last' = Op("MoveReturn", room_id, player_id)
    /\ Blocking = {}
    /\ <<room_id, player_id>> \in DOMAIN tasks
    /\ tasks[<<room_id, player_id>>].pc \in {"reject", "cont"}
    /\ ReleaseLock(room_id, player_id)
    /\ out' = {}
    /\ UNCHANGED <<users, rooms, handlers, lastMover, evalVars>>

\* lines 244-249, 254-257: the terminal broadcast is over; the game is reset
\* and requests.post is called
MoveReset(room_id, player_id) ==
    /\ last' = Op("MoveReset", room_id, player_id)
    /\ Blocking = {}
    /\ <<room_id, player_id>> \in DOMAIN tasks
    /\ tasks[<<room_id, player_id>>].pc = "term"
    /\ games' = [games EXCEPT ![room_id] = MoveEnd(@, "term")]
    /\ tasks' = [tasks EXCEPT ![<<room_id, player_id>>].pc = "post"]
    /\ out' = {}
    /\ UNCHANGED <<users, rooms, handlers, lastMover, evalVars>>

\* lines 249-252, 257-260: requests.post returns or raises; handle_move returns
MovePosted(room_id, player_id, posted) ==
    /\ last' = Op("MovePosted", room_id, player_id)
    /\ <<room_id, player_id>> \in DOMAIN tasks
    /\ tasks[<<room_id, player_id>>].pc = "post"
    /\ rooms' = RoomsAfterMove(room_id, "term", posted)
    /\ ReleaseLock(room_id, player_id)
    /\ out' = {}
    /\ UNCHANGED <<users, handlers, lastMover, evalVars>>

\* lines 99-103: the connection is accepted and the admission round trips begin
Accept(room_id, player_id) ==
    /\ last' = Op("Accept", room_id, player_id)
    /\ Blocking = {}
    /\ <<room_id, player_id>> \notin handlers
    /\ <<room_id, player_id>> \notin DOMAIN tasks
    /\ tasks' = (<<room_id, player_id>> :> Task("admission", NoIndex)) @@ tasks
    /\ out' = {}
    /\ UNCHANGED <<users, rooms, games, handlers, lastMover, evalVars>>

\* lines 103-161: the round trips are over; the connection is turned away or
\* registered
Admitted(room_id, player_id, userNet, roomNet) ==
    /\ <<room_id, player_id>> \in DOMAIN tasks
    /\ tasks[<<room_id, player_id>>].pc = "admission"
    /\ Connect(room_id, player_id, userNet, roomNet)
    /\ tasks' = Without(tasks, <<room_id, player_id>>)

\* lines 180-188: a connection awaiting receive_text is closed by its client
Closed(room_id, player_id) ==
    /\ Blocking = {}
    /\ <<room_id, player_id>> \notin DOMAIN tasks
    /\ Disconnect(room_id, player_id)

NextAwait ==
    \/ \E r \in Room1, p \in Players : \E index \in AllInputs(r) : MoveFrame(r, p, index)
    \/ \E r \in Room1, p \in Players : LockGranted(r, p)
    \/ \E r \in Room1, p \in Players : MoveReturn(r, p)
    \/ \E r \in Room1, p \in Players : MoveReset(r, p)
    \/ \E r \in Room1, p \in Players, posted \in BOOLEAN : MovePosted(r, p, posted)
    \/ \E r \in Room1, p \in Players : Accept(r, p)
    \/ \E r \in Room1, p \in Players : Admitted(r, p, "ok", "ok")
    \/ \E r \in Room1, p \in Players : Closed(r, p)

SpecAwait == InitPlay /\ [][NextAwait]_vars

\* The steps the server takes by itself. A coroutine whose await is over is
\* in the ready queue of the event loop, which runs its entries in order of
\* arrival, so it is run after finitely many other steps even if synchronous
\* calls of other coroutines hold the loop in between (strong fairness). A
\* call of requests ends by its answer or by its timeout (lines 60, 72, 249,
\* 257: timeout=2 or 3), and nothing else runs meanwhile (weak fairness).
\* Frames, connections and disconnections come from the clients and are not
\* bound to happen.
GrantStep == \E r \in Room1, p \in Players : LockGranted(r, p)
ReturnStep == \E r \in Room1, p \in Players : MoveReturn(r, p)
ResetStep == \E r \in Room1, p \in Players : MoveReset(r, p)
PostedStep == \E r \in Room1, p \in Players, posted \in BOOLEAN : MovePosted(r, p, posted)
AdmittedStep == \E r \in Room1, p \in Players : Admitted(r, p, "ok", "ok")

FairAwait ==
    /\ SF_vars(GrantStep)
    /\ SF_vars(ReturnStep)
    /\ SF_vars(ResetStep)
    /\ WF_vars(PostedStep)
    /\ WF_vars(AdmittedStep)

SpecAwaitFair == InitPlay /\ [][NextAwait]_vars /\ FairAwait

-----------------------------------------------------------------------------
(* Two rooms, step by step: in r1 connections come and go between the     *)
(* moves, in r2 two connected players move. The clients play by the rules: *)
(* the turn holder sends a move for an empty cell, so that no coroutine    *)
(* ever queues for a lock.                                                  *)

\* the game of two players a and b who have both connected, a first
StartedBy(a, b) ==
    [board    |-> EmptyBoard,
     players  |-> <<a, b>>,
     mark_map |-> (a :> "X") @@ (b :> "O"),
     turn     |-> a,
     sockets  |-> (a :> 1) @@ (b :> 1),
     lock     |-> [locked |-> FALSE, waiters |-> <<>>]]

InitRooms ==
    /\ users = Participants
    /\ rooms = ("r1" :> [players |-> <<"p1", "p2">>, status |-> "full"])
               @@ ("r2" :> [players |-> <<"p3", "p4">>, status |-> "full"])
    /\ games = ("r1" :> StartedBy("p1", "p2")) @@ ("r2" :> StartedBy("p3", "p4"))
    /\ handlers = {<<"r1", "p1">>, <<"r1", "p2">>, <<"r2", "p3">>, <<"r2", "p4">>}
    /\ out = {}
    /\ lastMover = [r \in RoomIds |-> NoneVal]
    /\ last = Op("", "", "")
    /\ tasks = EmptyFn
    /\ board_in = EmptyBoard
    /\ result_out = NoneVal

\* the members of the two rooms
Members(r) == IF r = "r1" THEN {"p1", "p2"} ELSE {"p3", "p4"}

\* the moves for an empty cell among the inputs of a client
ValidInputs(room_id) ==
    {i \in AllInputs(room_id) :
        i.isint /\ i.val \in Cells /\ games[room_id].board[i.val + 1] = EmptyCell}

NextRooms ==
    \/ \E r \in RoomIds : \E p \in Members(r) : \E index \in ValidInputs(r) :
          games[r].turn = p /\ MoveFrame(r, p, index)
    \/ \E r \in RoomIds : \E p \in Members(r) : MoveReturn(r, p)
    \/ \E r \in RoomIds : \E p \in Members(r) : MoveReset(r, p)
    \/ \E r \in RoomIds : \E p \in Members(r) : MovePosted(r, p, FALSE)
    \/ \E r \in Room1 : \E p \in Members(r) : Accept(r, p)
    \/ \E r \in Room1 : \E p \in Members(r) : Admitted(r, p, "ok", "ok")
    \/ \E r \in Room1 : \E p \in Members(r) : Closed(r, p)

SpecRooms == InitRooms /\ [][NextRooms]_vars

-----------------------------------------------------------------------------
(* The Room Service request by request. Its endpoints are plain functions,  *)
(* which FastAPI runs on the threads of a pool, so requests interleave      *)
(* between any two statements. tasks[<<room_id, user_id>>].pc says where    *)
(* the thread of a request stands:                                          *)
(*   "append"  join_room has passed its checks (lines 66-80)                *)
(*   "status"  join_room has appended the user (line 82)                    *)
(*   "create"  create_room has passed its checks (lines 43-48)              *)
(* The thread of a create_room request is tasks[<<"", host_id>>].           *)

\* lines 66-80: the checks of join_room let the request through
JoinPasses(r, u) ==
    /\ verify_user_exists(u)
    /\ ~InAnyRoom(u)
    /\ r \in DOMAIN rooms
    /\ ~InSeq(u, rooms[r].players)
    /\ ~(Len(rooms[r].players) >= 2)

\* lines 63-80: a join request is checked; it goes on or is answered with an
\* error
JoinChecked(r, u) ==
    /\ last' = Op("JoinChecked", r, u)
    /\ <<r, u>> \notin DOMAIN tasks
    /\ tasks' = IF JoinPasses(r, u)
                THEN (<<r, u>> :> Task("append", NoIndex)) @@ tasks
                ELSE tasks
    /\ out' = {}
    /\ UNCHANGED <<users, rooms, games, handlers, lastMover, evalVars>>

\* line 82: room.players.append(user_id)
JoinAppend(r, u) ==
    /\ last' = Op("JoinAppend", r, u)
    /\ <<r, u>> \in DOMAIN tasks
    /\ tasks[<<r, u>>].pc = "append"
    /\ rooms' = [rooms EXCEPT ![r].players = Append(@, u)]
    /\ tasks' = [tasks EXCEPT ![<<r, u>>].pc = "status"]
    /\ out' = {}
    /\ UNCHANGED <<users, games, handlers, lastMover, evalVars>>

\* line 83: the status is set from the length of the roster as it is now
JoinStatus(r, u) ==
    /\ last' = Op("JoinStatus", r, u)
    /\ <<r, u>> \in DOMAIN tasks
    /\ tasks[<<r, u>>].pc = "status"
    /\ rooms' = [rooms EXCEPT ![r].status =
                    IF Len(rooms[r].players) = 2 THEN "full" ELSE "waiting"]
    /\ tasks' = Without(tasks, <<r, u>>)
    /\ out' = {}
    /\ UNCHANGED <<users, games, handlers, lastMover, evalVars>>

\* lines 41-48: a create request is checked; it goes on or is answered with
\* an error
CreateChecked(host) ==
    /\ last' = Op("CreateChecked", "", host)
    /\ <<"", host>> \notin DOMAIN tasks
    /\ tasks' = IF verify_user_exists(host) /\ ~InAnyRoom(host)
                THEN (<<"", host>> :> Task("create", NoIndex)) @@ tasks
                ELSE tasks
    /\ out' = {}
    /\ UNCHANGED <<users, rooms, games, handlers, lastMover, evalVars>>

\* lines 50-54: under the lock, the room is stored under a fresh identifier
CreateInsert(r, host) ==
    /\ last' = Op("CreateInsert", r, host)
    /\ <<"", host>> \in DOMAIN tasks
    /\ tasks[<<"", host>>].pc = "create"
    /\ r \notin DOMAIN rooms
    /\ rooms' = (r :> [players |-> <<host>>, status |-> "waiting"]) @@ rooms
    /\ tasks' = Without(tasks, <<"", host>>)
    /\ out' = {}
    /\ UNCHANGED <<users, games, handlers, lastMover, evalVars>>

\* the users are registered; the Room Service starts with no room
InitJoin ==
    /\ users = Players3
    /\ rooms = EmptyFn
    /\ games = EmptyFn
    /\ handlers = {}
    /\ out = {}
    /\ lastMover = [r \in RoomIds |-> NoneVal]
    /\ last = Op("", "", "")
    /\ tasks = EmptyFn
    /\ board_in = EmptyBoard
    /\ result_out = NoneVal

NextJoin ==
    \/ \E r \in RoomIds, u \in Players3 : JoinChecked(r, u)
    \/ \E r \in RoomIds, u \in Players3 : JoinAppend(r, u)
    \/ \E r \in RoomIds, u \in Players3 : JoinStatus(r, u)
    \/ \E u \in Players3 : CreateChecked(u)
    \/ \E r \in RoomIds, u \in Players3 : CreateInsert(r, u)

SpecJoin == InitJoin /\ [][NextJoin]_vars

-----------------------------------------------------------------------------
(* Properties *)

\* the fields of a session the properties speak of: grid, turn, roster, role
\* map and channels
Session(game) == <<game.board, game.turn, game.players, game.mark_map, game.sockets>>

\* the step is a move frame of player p on room r, handled to the end
MoveBy(r, p, index) ==
    /\ last' = Op("handle_move", r, p)
    /\ \E posted \in BOOLEAN : handle_move(r, p, index, posted)

\* the step is a connection of player p to room r
ConnectBy(r, p, userNet, roomNet) ==
    /\ last' = Op("websocket_endpoint", r, p)
    /\ websocket_endpoint(r, p, userNet, roomNet)

\* the identity is known, the player is a member of the room and both
\* collaborators answered
Admissible(r, p, userNet, roomNet) ==
    /\ userNet = "ok" /\ roomNet = "ok"
    /\ p \in users
    /\ r \in DOMAIN rooms
    /\ InSeq(p, rooms[r].players)

\* the step registers a connection of p in room r
Registers(r, p) ==
    /\ \E userNet \in NetOutcomes, roomNet \in NetOutcomes : ConnectBy(r, p, userNet, roomNet)
    /\ r \in DOMAIN games'
    /\ p \in DOMAIN games'[r].sockets
    /\ (r \in DOMAIN games => p \notin DOMAIN games[r].sockets)

\* one error frame, to the socket ws of p, and nothing else
OneErrorTo(frames, p, ws) ==
    /\ Cardinality(frames) = 1
    /\ \A f \in frames : f.type = "error" /\ f.p = p /\ f.ws = ws

\* one error frame to the socket ws of p, which is then closed, and nothing else
ErrorAndCloseTo(frames, p, ws) ==
    /\ Cardinality(frames) = 2
    /\ \A f \in frames : f.type \in {"error", "close"} /\ f.p = p /\ f.ws = ws
    /\ \E f \in frames : f.type = "error"
    /\ \E f \in frames : f.type = "close"

\* the move is to be rejected: mover not in the roster, not the turn holder,
\* index no integer of 0..8, or cell occupied
Rejectable(game, p, index) ==
    \/ ~InSeq(p, game.players)
    \/ game.turn # p
    \/ ~index.isint
    \/ index.val \notin Cells
    \/ game.board[index.val + 1] # EmptyCell

\* C1: within one round successive accepted moves are made by alternating
\* roster identifiers: no accepted move is made by the participant who made
\* the last accepted move of the round.
C1_TurnAlternates ==
    [][\A r \in Room1, p \in Players :
        last' = Op("handle_move", r, p) => \A index \in AllInputs(r) :
          (/\ r \in DOMAIN games
           /\ ~Rejectable(games[r], p, index)
           /\ MoveBy(r, p, index))
          => lastMover[r] # p]_vars

\* C2: a rejected move attempt sends one error frame to the requester only,
\* broadcasts nothing and leaves grid, turn, roster, role map and channels
\* (and the room) as they were.
C2_RejectedMoveNoEffect ==
    [][\A r \in Room1, p \in Players :
        last' = Op("handle_move", r, p) => \A index \in AllInputs(r) :
          (/\ r \in DOMAIN games
           /\ Rejectable(games[r], p, index)
           /\ MoveBy(r, p, index))
          => /\ p \in DOMAIN games[r].sockets
             /\ OneErrorTo(out', p, games[r].sockets[p])
             /\ Session(games'[r]) = Session(games[r])
             /\ rooms' = rooms
             /\ handlers' = handlers]_vars

\* C2 witness: a move for an occupied cell has just been rejected
C2_Witness ==
    \E f \in out : f.type = "error" /\ f.message = "Cell already occupied"

\* the board once p's mark stands at index
Placed(game, p, index) == [game.board EXCEPT ![index.val + 1] = game.mark_map[p]]

\* the grid shows a completed triple or has no empty cell
Terminal(board) == check_winner(board) # NoneVal

\* C3: an accepted move that produces a win or a draw leaves, once its
\* handler has finished, the grid all-empty and the turn with the first
\* roster identifier; roster and role map are as before the move.
C3_TerminalMoveResets ==
    [][\A r \in Room1, p \in Players :
        last' = Op("handle_move", r, p) => \A index \in PlayInputs :
          (/\ r \in DOMAIN games
           /\ ~Rejectable(games[r], p, index)
           /\ Terminal(Placed(games[r], p, index))
           /\ MoveBy(r, p, index))
          => /\ games'[r].board = EmptyBoard
             /\ games'[r].turn = games[r].players[1]
             /\ games'[r].players = games[r].players
             /\ games'[r].mark_map = games[r].mark_map]_vars

\* C3 witness: a draw has just been broadcast and the grid is empty again
C3_Witness ==
    /\ \E f \in out : f.type = "state" /\ f.winner = "draw"
    /\ "r1" \in DOMAIN games
    /\ games["r1"].board = EmptyBoard

\* the eight triples of the grid: three rows, three columns, two diagonals
Triples ==
    {{0, 1, 2}, {3, 4, 5}, {6, 7, 8},
     {0, 3, 6}, {1, 4, 7}, {2, 5, 8},
     {0, 4, 8}, {2, 4, 6}}

\* mark M holds the three cells of triple t
Holds(board, t, M) == \A c \in t : board[c + 1] = M

\* C4: check_winner returns a mark that holds one of the eight triples if
\* there is one; otherwise draw if no cell is empty; otherwise None. A grid
\* whose completed triples all belong to one mark yields that mark.
C4_CheckWinner ==
    result_out # "unset" =>
      /\ (\E t \in Triples, M \in Marks : Holds(board_in, t, M))
            => /\ result_out \in Marks
               /\ \E t \in Triples : Holds(board_in, t, result_out)
      /\ \A M \in Marks :
            (/\ \E t \in Triples : Holds(board_in, t, M)
             /\ \A t \in Triples, N \in Marks \ {M} : ~Holds(board_in, t, N))
            => result_out = M
      /\ (/\ \A t \in Triples, M \in Marks : ~Holds(board_in, t, M)
          /\ \A c \in Cells : board_in[c + 1] # EmptyCell)
            => result_out = "draw"
      /\ (/\ \A t \in Triples, M \in Marks : ~Holds(board_in, t, M)
          /\ \E c \in Cells : board_in[c + 1] = EmptyCell)
            => result_out = NoneVal

\* C4 witness: O holds the anti-diagonal and no other triple is complete
C4_Witness ==
    /\ result_out = "O"
    /\ Holds(board_in, {2, 4, 6}, "O")
    /\ \A t \in Triples \ {{2, 4, 6}}, M \in Marks : ~Holds(board_in, t, M)

\* C5: a connection attempt of a participant who has a live channel
\* registered in the room's session gets an error frame and is closed; the
\* registered channel, roster, role map, grid and turn stay as they were.
C5_DuplicateRejected ==
    [][\A r \in Room1, p \in Players :
        last' = Op("websocket_endpoint", r, p) =>
          \A userNet \in NetOutcomes, roomNet \in NetOutcomes :
            (/\ r \in DOMAIN games
             /\ p \in DOMAIN games[r].sockets
             /\ ConnectBy(r, p, userNet, roomNet))
            => /\ \E ws \in {1, 2} \ {games[r].sockets[p]} : ErrorAndCloseTo(out', p, ws)
               /\ games' = games
               /\ handlers' = handlers]_vars

\* C5 witness: a duplicate connection has just been turned away
C5_Witness ==
    \E f \in out : f.type = "error" /\ f.message = "Player already connected"

\* C6: a disconnect of one participant removes that participant's entry from
\* the channels and nothing else: roster, role map, grid and turn are as
\* before, the other channels stay registered, the session stays in the
\* registry.
C6_DisconnectRemovesChannelOnly ==
    [][\A r \in Room1, p \in Players :
        (/\ last' = Op("Disconnect", r, p)
         /\ r \in DOMAIN games
         /\ Disconnect(r, p))
        => /\ r \in DOMAIN games'
           /\ games'[r].players = games[r].players
           /\ games'[r].mark_map = games[r].mark_map
           /\ games'[r].board = games[r].board
           /\ games'[r].turn = games[r].turn
           /\ DOMAIN games'[r].sockets = (DOMAIN games[r].sockets) \ {p}
           /\ \A q \in DOMAIN games'[r].sockets :
                 games'[r].sockets[q] = games[r].sockets[q]]_vars

\* C6 witness: a participant has just disconnected in the middle of a round
\* and the other one is still connected
C6_Witness ==
    /\ last.op = "Disconnect"
    /\ "r1" \in DOMAIN games
    /\ games["r1"].board # EmptyBoard
    /\ \E q \in Players \ {last.user} : DOMAIN games["r1"].sockets = {q}

\* C7: a roster member who reconnects in the middle of a round resumes it:
\* the reconnection changes neither whose turn it is nor the grid.
C7_ReconnectResumes ==
    [][\A r \in Room1, p \in Players :
        (/\ last' = Op("websocket_endpoint", r, p)
         /\ r \in DOMAIN games
         /\ InSeq(p, games[r].players)
         /\ games[r].turn # NoneVal
         /\ games[r].board # EmptyBoard
         /\ Registers(r, p))
        => /\ games'[r].turn = games[r].turn
           /\ games'[r].board = games[r].board]_vars

\* C8: a connection whose admission fails (identity unknown, not a member of
\* the room, a collaborator unreachable or erroring) gets one error frame and
\* is closed; no session is created and no session changes.
C8_AdmissionFailsClosed ==
    [][\A r \in Room1, p \in Players :
        last' = Op("websocket_endpoint", r, p) =>
          \A userNet \in NetOutcomes, roomNet \in NetOutcomes :
            (/\ ~Admissible(r, p, userNet, roomNet)
             /\ ConnectBy(r, p, userNet, roomNet))
            => /\ ErrorAndCloseTo(out', p, NewWs(r, p))
               /\ games' = games
               /\ handlers' = handlers]_vars

\* C8 witness: a known user who is no member of the room has just been
\* turned away, and no session exists
C8_Witness ==
    /\ \E f \in out : f.type = "error" /\ f.message = "User not in the specified room"
    /\ games = EmptyFn

\* every registered socket gets a state snapshot, and nothing else is sent
BroadcastTo(frames, game) ==
    /\ \A f \in frames : f.type = "state"
    /\ \A q \in DOMAIN game.sockets :
          \E f \in frames : f.p = q /\ f.ws = game.sockets[q]

\* one info frame, to p, and nothing else
OneInfoTo(frames, p) ==
    /\ Cardinality(frames) = 1
    /\ \A f \in frames : f.type = "info" /\ f.p = p

\* C9: a registration that leaves exactly two participants with live
\* channels sets turn to the first roster entry and broadcasts a snapshot to
\* the session; any other registration sends a waiting info to the connecting
\* participant only and leaves turn alone. Turn leaves none only with two
\* live channels.
C9_StartOnSecondChannel ==
    [][\A r \in Room1, p \in Players3 :
        /\ (last' = Op("websocket_endpoint", r, p) /\ Registers(r, p))
           => IF Cardinality(DOMAIN games'[r].sockets) = 2
              THEN /\ games'[r].turn = games'[r].players[1]
                   /\ BroadcastTo(out', games'[r])
              ELSE /\ OneInfoTo(out', p)
                   /\ r \in DOMAIN games => games'[r].turn = games[r].turn
                   /\ r \notin DOMAIN games => games'[r].turn = NoneVal
        /\ (r \in DOMAIN games' /\ games'[r].turn # NoneVal
            /\ (r \in DOMAIN games => games[r].turn = NoneVal))
           => Cardinality(DOMAIN games'[r].sockets) = 2]_vars

\* C10: a frame that is no valid move command (malformed JSON, JSON that is
\* no command object, a missing or unknown action) yields one error frame to
\* the sender only; the connection stays in its message loop with its channel
\* registered and the session is unchanged.
C10_BadFrameKeepsConnection ==
    [][\A r \in Room1, p \in Players :
        (/\ last'.room = r /\ last'.user = p
         /\ last'.op \in {"RecvInvalidJson", "RecvNonObject", "RecvUnknownAction"}
         /\ \/ RecvInvalidJson(r, p)
            \/ RecvNonObject(r, p)
            \/ RecvUnknownAction(r, p))
        => /\ OneErrorTo(out', p, OwnWs(r, p))
           /\ <<r, p>> \in handlers'
           /\ games' = games]_vars

\* the sequence holds no element twice
NoDuplicates(s) == \A i, j \in 1..Len(s) : s[i] = s[j] => i = j

\* C12: in every reachable state the roster of a session holds at most two
\* participant identifiers and no duplicates.
C12_RosterAtMostTwo ==
    \A r \in DOMAIN games :
        /\ Len(games[r].players) <= 2
        /\ NoDuplicates(games[r].players)

\* C13: the domain of the role map is a subset of the roster, the first
\* joiner holds X and the second joiner holds O, and a mark once assigned
\* never changes while the session lives.
C13_RolesStable ==
    /\ [](\A r \in DOMAIN games :
            /\ \A p \in DOMAIN games[r].mark_map : InSeq(p, games[r].players)
            /\ Len(games[r].players) >= 1 =>
                  /\ games[r].players[1] \in DOMAIN games[r].mark_map
                  /\ games[r].mark_map[games[r].players[1]] = "X"
            /\ Len(games[r].players) >= 2 =>
                  /\ games[r].players[2] \in DOMAIN games[r].mark_map
                  /\ games[r].mark_map[games[r].players[2]] = "O")
    /\ [][\A r \in DOMAIN games : \A p \in DOMAIN games[r].mark_map :
            /\ r \in DOMAIN games'
            /\ p \in DOMAIN games'[r].mark_map
            /\ games'[r].mark_map[p] = games[r].mark_map[p]]_vars

\* C13 witness: a third participant has registered after a round, and the
\* second joiner, away during that round, is connected again
C13_Witness ==
    /\ "r1" \in DOMAIN games
    /\ Len(games["r1"].players) = 3
    /\ last = Op("websocket_endpoint", "r1", games["r1"].players[2])
    /\ games["r1"].board # EmptyBoard

\* C14: in every reachable state the grid has nine cells, each empty, X or
\* O: every accepted move writes the mark of a mover who has a role.
C14_GridWellFormed ==
    \A r \in DOMAIN games :
        /\ Len(games[r].board) = 9
        /\ \A i \in 1..Len(games[r].board) : games[r].board[i] \in {EmptyCell} \cup Marks

\* C14 witness: a move has just been accepted in a session whose roster
\* holds a third participant, who has no role
C14_Witness ==
    /\ "r1" \in DOMAIN games
    /\ Len(games["r1"].players) = 3
    /\ DOMAIN games["r1"].mark_map # {p \in Players3 : InSeq(p, games["r1"].players)}
    /\ last.op = "handle_move"
    /\ \E f \in out : f.type = "state" /\ f.message = "moved"

\* C15: when the handler of a registered connection ends, for whatever
\* reason, the participant's channel is no longer in the session's channels
\* (so that a later connection of the participant is no duplicate).
C15_EndedHandlerLeavesNoChannel ==
    [][\A r \in Room1, p \in Players :
        (<<r, p>> \in handlers /\ <<r, p>> \notin handlers')
        => (r \in DOMAIN games' => p \notin DOMAIN games'[r].sockets)]_vars

\* the step brings the coroutine c to pc
Enters(c, pc) ==
    /\ c \in DOMAIN tasks'
    /\ tasks'[c].pc = pc
    /\ c \in DOMAIN tasks => tasks[c].pc # pc

\* the step accepts a move of the session of room r
AcceptsMove(r) ==
    \E q \in Participants : Enters(<<r, q>>, "cont") \/ Enters(<<r, q>>, "term")

\* the frames are a terminal snapshot of game for all its sockets: they show
\* its completed grid, and their winner is the owner of the winning mark, or
\* the draw marker
TerminalSnapshot(frames, game) ==
    /\ Terminal(game.board)
    /\ \A q \in DOMAIN game.sockets : \E f \in frames : f.p = q /\ f.ws = game.sockets[q]
    /\ \A f \in frames :
          /\ f.type = "state"
          /\ f.board = game.board
          /\ IF check_winner(game.board) = "draw"
             THEN f.winner = "draw"
             ELSE /\ f.winner \in DOMAIN game.mark_map
                  /\ game.mark_map[f.winner] = check_winner(game.board)

\* C11: an accepted move that completes a line (or fills the grid) is
\* followed by a terminal snapshot whose winner is the participant owning the
\* winning mark (the draw marker on a draw) and which shows the completed
\* grid; the session is reset only after this broadcast, and no other move of
\* the session is accepted between the winning move and the reset.
C11_TerminalSnapshotBeforeReset ==
    [][\A r \in Room1, p \in Players :
        /\ Enters(<<r, p>>, "term")
           => /\ \E index \in AllInputs(r) :
                    /\ ~Rejectable(games[r], p, index)
                    /\ games'[r].board = Placed(games[r], p, index)
              /\ TerminalSnapshot(out', games'[r])
        /\ (<<r, p>> \in DOMAIN tasks /\ tasks[<<r, p>>].pc = "term")
           => /\ ~AcceptsMove(r)
              /\ \/ games'[r].board = games[r].board
                 \/ /\ last' = Op("MoveReset", r, p)
                    /\ games'[r].board = EmptyBoard
        /\ (games[r].board # EmptyBoard /\ games'[r].board = EmptyBoard)
           => \E q \in Players : /\ <<r, q>> \in DOMAIN tasks
                                 /\ tasks[<<r, q>>].pc = "term"]_vars

\* C11 witness: the game has been reset after the terminal snapshot of a win
\* was broadcast, and the room reset is being posted
C11_Witness ==
    /\ \E c \in DOMAIN tasks : tasks[c].pc = "post"
    /\ games["r1"].board = EmptyBoard
    /\ lastMover["r1"] = NoneVal

\* the fields of a session that its guard protects
Guarded(game) == <<game.board, game.turn, game.sockets, game.mark_map>>

\* C16: every mutation of a session's grid, turn, channels or role map is
\* made by a context that holds the session's guard, and none is made while
\* another context holds the guard in the middle of a move.
C16_MutationsUnderGuard ==
    [][\A r \in Room1 :
        Guarded(games'[r]) # Guarded(games[r])
        => /\ last'.room = r
           /\ \/ <<r, last'.user>> \in Holders(r)
              \/ <<r, last'.user>> \in Holders(r)'
           /\ Holders(r) \ {<<r, last'.user>>} = {}]_vars

\* the step starts the validation of a move of p on room r
Validates(r, p) ==
    Enters(<<r, p>>, "reject") \/ Enters(<<r, p>>, "cont") \/ Enters(<<r, p>>, "term")

\* C17: moves of one session are atomic with respect to each other: a move
\* is validated only when no other move of the session stands between its
\* validation and its return, at most one context holds the guard, and an
\* accepted move finds its cell empty and its mover holding the turn.
C17_MovesAtomic ==
    /\ [](\A r \in Room1 :
            /\ Cardinality(Holders(r)) <= 1
            /\ Holders(r) # {} => games[r].lock.locked)
    /\ [][\A r \in Room1, p \in Players :
            /\ Validates(r, p) => Holders(r) = {}
            /\ (Enters(<<r, p>>, "cont") \/ Enters(<<r, p>>, "term"))
               => /\ ~Rejectable(games[r], p, tasks'[<<r, p>>].index)
                  /\ games'[r].board = Placed(games[r], p, tasks'[<<r, p>>].index)]_vars

\* C17 witness: a move attempt for a cell waits for the guard while the
\* attempt that has just taken that cell is still being handled
C17_Witness ==
    \E c \in DOMAIN tasks, d \in DOMAIN tasks :
        /\ c[1] = d[1]
        /\ tasks[c].pc = "cont"
        /\ tasks[d].pc = "wait"
        /\ tasks[d].index = tasks[c].index

\* the turn holder p of room r awaits a frame, the guard of its session is
\* free and index is a move for an empty cell
MoveReady(r, p, index) ==
    /\ games[r].turn = p
    /\ <<r, p>> \in handlers
    /\ <<r, p>> \notin DOMAIN tasks
    /\ CanAcquire(games[r].lock)
    /\ index \in ValidInputs(r)

\* no call of an external collaborator is in progress in a context that
\* holds a session guard
NoCallUnderGuard == \A c \in Blocking : c \notin Holders(c[1])

\* while a connection is in its admission round trips, a valid move of the
\* turn holder of another session can be accepted
AdmissionDelaysNoMove ==
    \A c \in Blocking :
        tasks[c].pc = "admission"
        => \A r \in RoomIds \ {c[1]} : \A p \in Members(r) :
              \A index \in AllInputs(r) :
                 MoveReady(r, p, index) => ENABLED MoveFrame(r, p, index)

\* C18: no blocking call to an external collaborator is in progress while
\* the calling context holds a session guard, and while a connection waits
\* on an external call a valid move by the turn holder of another session can
\* still be accepted.
C18_ExternalCallsDoNotBlock == NoCallUnderGuard /\ AdmissionDelaysNoMove

\* grid, turn, roster, role map and channels of the session of room r
SessionOf(r) ==
    [board    |-> games[r].board,
     turn     |-> games[r].turn,
     players  |-> games[r].players,
     mark_map |-> games[r].mark_map,
     sockets  |-> games[r].sockets]

\* the guard of room r is free and nobody waits for it
GuardFree(r) == ~games[r].lock.locked /\ games[r].lock.waiters = <<>>

\* the guard of another room is held
HeldElsewhere(b) ==
    \E a \in RoomIds \ {b} : Holders(a) # {} /\ games[a].lock.locked

\* the turn holder p of room b awaits a frame and the guard of b is free
AwaitsFrame(b, p) ==
    /\ games[b].turn = p /\ <<b, p>> \in handlers
    /\ <<b, p>> \notin DOMAIN tasks /\ GuardFree(b)

\* a step of room A leaves the session of every other room unchanged
FrameOfRooms ==
    [][\A b \in RoomIds \ {last'.room} : SessionOf(b)' = SessionOf(b)]_vars

\* a move frame taken up while the guard of its room is free acquires it
FreeGuardAcquired ==
    [][\A b \in RoomIds : \A p \in Members(b) :
          (last' = Op("MoveFrame", b, p) /\ GuardFree(b))
          => (<<b, p>> \in Holders(b)' /\ games'[b].lock.locked)]_vars

\* what holds of the guards: while the guard of A is held by a coroutine
\* suspended at an await, a move of B is taken up
IndependentAtAwaits ==
    /\ FrameOfRooms
    /\ FreeGuardAcquired
    /\ [](\A b \in RoomIds : \A p \in Members(b) : \A index \in ValidInputs(b) :
            (HeldElsewhere(b) /\ Blocking = {} /\ AwaitsFrame(b, p))
            => ENABLED MoveFrame(b, p, index))

Settled(r) == \A c \in DOMAIN tasks : ~(c[1] = r /\ tasks[c].pc = "status")

\* no room lists more than 2 players
AtMostTwoListed == \A r \in DOMAIN rooms : Len(rooms[r].players) <= 2

\* the status of a room is "full" exactly when it lists 2 players
FullIffTwo ==
    \A r \in DOMAIN rooms :
        Settled(r) => ((rooms[r].status = "full") <=> (Len(rooms[r].players) = 2))

\* C20: under any interleaving of concurrent join_room and create_room
\* requests, no room lists more than 2 players, and the status of a room is
\* "full" exactly when it lists 2 players (once the request that changed the
\* roster has set the status).
C20_RoomNeverOverfull == AtMostTwoListed /\ FullIffTwo

\* the grid has no completed triple and at least one empty cell
InPlay(board) ==
    /\ \A t \in Triples, M \in Marks : ~Holds(board, t, M)
    /\ \E c \in Cells : board[c + 1] = EmptyCell

\* C21: whenever no move handler holds the guard of a session, its grid has
\* no completed triple and at least one empty cell; on every winning move
\* each completed triple holds the mover's own mark, and the winner reported
\* to every channel is the participant who made that move.
C21_WinnerIsMover ==
    /\ [](\A r \in Room1 :
            (r \in DOMAIN games /\ Holders(r) = {}) => InPlay(games[r].board))
    /\ [][\A r \in Room1, p \in Players :
            (/\ Enters(<<r, p>>, "term")
             /\ \E t \in Triples, M \in Marks : Holds(games'[r].board, t, M))
            => /\ p \in DOMAIN games[r].mark_map
               /\ \A t \in Triples, M \in Marks :
                     Holds(games'[r].board, t, M) => M = games[r].mark_map[p]
               /\ out' # {}
               /\ \A f \in out' : f.type = "state" /\ f.winner = p]_vars

\* C21 witness: the second participant has just completed a triple of O and
\* is reported as the winner
C21_Witness ==
    /\ <<"r1", "p2">> \in DOMAIN tasks
    /\ tasks[<<"r1", "p2">>].pc = "term"
    /\ \E t \in Triples : Holds(games["r1"].board, t, "O")
    /\ \E f \in out : f.winner = "p2"

\* the coroutine c is in handle_move: it waits for the guard or holds it
InMove(c) == c \in DOMAIN tasks /\ tasks[c].pc # "admission"

\* C22: the guard of a session is always eventually released: a move handler
\* that holds it leaves it on every path (rejection, continuing move, win,
\* draw); and a move that has arrived, the valid move of the turn holder
\* among them, is eventually processed and its handler returns.
C22_GuardEventuallyReleased ==
    /\ \A r \in Room1 : games[r].lock.locked ~> ~games[r].lock.locked
    /\ \A r \in Room1, p \in Players : InMove(<<r, p>>) ~> ~InMove(<<r, p>>)

\* C22 witness: a move that waited for the guard has been granted it after
\* the release by the previous move, and has been accepted
C22_Witness ==
    /\ last.op = "LockGranted"
    /\ <<last.room, last.user>> \in Holders(last.room)
    /\ tasks[<<last.room, last.user>>].pc \in {"cont", "term"}

====
